---- MODULE Spec2Model ----
(***************************************************************************)
(* Model of crates/sipmsg/src/headers/header.rs: the SIP header            *)
(* orchestrator Header::parse with take_name, find_parser, take_value and  *)
(* try_take_parameters.                                                    *)
(*                                                                         *)
(* A byte is a one-symbol string.  A byte slice that is only read is a     *)
(* sequence of bytes; the remaining input is always a suffix of the        *)
(* caller's buffer buf, so its offset in buf is Len(buf) - Len(input).     *)
(* A slice that is stored as a view (raw_value_param) is the record        *)
(* [off, len] of its offset and length in buf.  Option<T> is a sequence    *)
(* of at most one T: None is << >>, Some(x) is <<x>>.                      *)
(*                                                                         *)
(* The collaborators that header.rs imports (byte classes, the SWS         *)
(* scanners, the registry, the value grammars, the generic-parameter       *)
(* grammar, the UTF-8 decoder) are modelled from their interface.          *)
(***************************************************************************)
EXTENDS Naturals, Sequences, FiniteSets

\* Longest tail (the bytes after the name part) of a generated buffer whose
\* name selects the token grammar, the one that stops at separators.
MaxLen == 5

\* Longest tail of a generated buffer with any other name part.
ShortLen == 3

\* ------------------------------------------------------------------ bytes

CR == "\r"
LF == "\n"
SP == " "
HTAB == "\t"
COMMA == ","
SEMI == ";"
COLON == ":"
\* A byte that no UTF-8 text contains (0xFF); it is in no character class.
BAD == "0xFF"

\* is_token_char: the token bytes among the bytes of the model.
TokenChars == {"v", "V", "x", "t", "a"}

\* The bytes a generated tail is made of.
TailBytes == {"a", COMMA, SEMI, SP, CR, LF, BAD}

\* The name part of the buffers with the long tails: a registered name.
Names == { <<"v", COLON>> }

\* The other name parts: the same name in the other case with a space before
\* the colon, a second registered name, an unregistered name, a name without
\* a colon, no name at all.
OtherNames ==
    { <<"V", SP, COLON>>, <<"t", COLON>>, <<"x", COLON>>, <<"v">>, <<COLON>> }

Tails(n) == UNION { [1..k -> TailBytes] : k \in 0..n }

Buffers ==
    { n \o t : n \in Names, t \in Tails(MaxLen) }
        \cup { n \o t : n \in OtherNames, t \in Tails(ShortLen) }

\* ---------------------------------------------------------------- helpers

None == << >>
Some(x) == <<x>>

Drop(s, n) == SubSeq(s, n + 1, Len(s))
Take(s, n) == SubSeq(s, 1, n)

RECURSIVE PrefixLen(_, _)
\* Number of leading bytes of s that are in S (take_while).
PrefixLen(s, S) ==
    IF s = << >> \/ s[1] \notin S THEN 0 ELSE 1 + PrefixLen(Tail(s), S)

\* nom::IResult: Ok((rest, val)) or Err(err).
Ok(rest, val) == [ok |-> TRUE, rest |-> rest, val |-> val, err |-> None]
Err(code, msg) ==
    [ok |-> FALSE, rest |-> << >>, val |-> None,
     err |-> Some([code |-> code, msg |-> msg])]

\* sip_parse_error!(code, msg)
sip_parse_error(code, msg) == Err(code, msg)

\* ---------------------------------------------------------- collaborators

is_crlf(input) == Len(input) >= 2 /\ input[1] = CR /\ input[2] = LF

to_ascii_lowercase(c) == IF c = "V" THEN "v" ELSE c

\* unicase::Ascii: the canonical form names are compared in.
Ascii(name) == [i \in 1..Len(name) |-> to_ascii_lowercase(name[i])]

\* str::from_utf8 / from_utf8_nom
is_utf8(bytes) == \A i \in 1..Len(bytes) : bytes[i] # BAD

\* nom::character::complete::space0: spaces and tabs; never fails.
space0(input) == Ok(Drop(input, PrefixLen(input, {SP, HTAB})), None)

\* take_sws_token::colon, take_sws_token::comma: SWS token SWS.
take_sws_token(token, input) ==
    LET a == Drop(input, PrefixLen(input, {SP}))
    IN  IF a # << >> /\ a[1] = token
        THEN Ok(Drop(Tail(a), PrefixLen(Tail(a), {SP})), None)
        ELSE Err(0, "Char")

\* HeaderValue::new
HeaderValue_new(val, vtype, vtags, sip_uri) ==
    IF is_utf8(val)
    THEN Ok(val, [vstr |-> val, vtype |-> vtype, vtags |-> vtags,
                  sip_uri |-> sip_uri])
    ELSE Err(0, "utf8")

\* An empty value of the wrong type.
create_empty_value_token ==
    [vstr |-> << >>, vtype |-> "TokenValue", vtags |-> None, sip_uri |-> None]

\* HeaderValue::create_empty_value
create_empty_value ==
    [vstr |-> << >>, vtype |-> "EmptyValue", vtags |-> None, sip_uri |-> None]

\* A registered header's grammar for a plain token value: 1*token-char.
TokenParser_take_value(input) ==
    LET n == PrefixLen(input, TokenChars)
    IN  IF n = 0 THEN Err(0, "TakeWhile1")
        ELSE LET v == HeaderValue_new(Take(input, n), "TokenValue", None, None)
             IN  IF v.ok THEN Ok(Drop(input, n), v.val) ELSE v

RECURSIVE UntilCrlf(_)
\* Number of bytes before the first line terminator (all of them if none).
UntilCrlf(s) ==
    IF s = << >> \/ is_crlf(s) THEN 0 ELSE 1 + UntilCrlf(Tail(s))

\* A registered header's grammar for free UTF-8 text up to the terminator.
Utf8TextParser_take_value(input) ==
    LET n == UntilCrlf(input)
    IN  IF n = 0 THEN Err(0, "TakeWhile1")
        ELSE LET v == HeaderValue_new(Take(input, n), "Utf8Text", None, None)
             IN  IF v.ok THEN Ok(Drop(input, n), v.val) ELSE v

\* ExtensionParser::take_value: any byte run up to the next terminator.
ExtensionParser_take_value(input) ==
    LET n == UntilCrlf(input)
        v == HeaderValue_new(Take(input, n), "ExtensionHeader", None, None)
    IN  IF v.ok THEN Ok(Drop(input, n), v.val) ELSE v

\* A HeaderValueParserFn is named by its grammar; this calls it.
HeaderValueParserFn(parser, input) ==
    CASE parser = "TokenParser" -> TokenParser_take_value(input)
      [] parser = "Utf8TextParser" -> Utf8TextParser_take_value(input)
      [] OTHER -> ExtensionParser_take_value(input)

\* The closed registry: canonical name -> (classification, grammar).
Registry ==
    { [name |-> <<"v">>, rfc |-> "RfcV", parser |-> "TokenParser"],
      [name |-> <<"t">>, rfc |-> "RfcT", parser |-> "Utf8TextParser"] }

InRegistry(header_name) == \E e \in Registry : e.name = Ascii(header_name)

RegistryEntry(header_name) ==
    CHOOSE e \in Registry : e.name = Ascii(header_name)

\* SipRFCHeader::from_str
SipRFCHeader_from_str(header_name) ==
    IF InRegistry(header_name) THEN Some(RegistryEntry(header_name).rfc)
    ELSE None

\* SipRFCHeader::get_parser
get_parser(rfc_header) ==
    (CHOOSE e \in Registry : e.rfc = rfc_header).parser

RECURSIVE GenericParams_parse(_)
\* GenericParams::parse: 1*( ";" 1*token-char ); the list of the keys.
GenericParams_parse(input) ==
    IF input = << >> \/ input[1] # SEMI THEN Err(0, "Char")
    ELSE LET n == PrefixLen(Tail(input), TokenChars)
             rest == Drop(Tail(input), n)
             key == Take(Tail(input), n)
         IN  IF n = 0 THEN Err(0, "TakeWhile1")
             ELSE IF rest # << >> /\ rest[1] = SEMI
             THEN LET more == GenericParams_parse(rest)
                  IN  IF more.ok THEN Ok(more.rest, <<key>> \o more.val)
                      ELSE more
             ELSE Ok(rest, <<key>>)

\* ------------------------------------------------------------- header.rs

\* Header::new
Header_new(name, value, parameters, raw_value_param) ==
    [name |-> name, value |-> value, parameters |-> parameters,
     raw_value_param |-> raw_value_param]

\* A lookup that compares the name as written.
find_parser_case_sensitive(header_name) ==
    IF \E e \in Registry : e.name = header_name
    THEN LET e == CHOOSE e \in Registry : e.name = header_name
         IN  [rfc_type |-> Some(e.rfc), parser |-> e.parser]
    ELSE [rfc_type |-> None, parser |-> "ExtensionParser"]

\* Header::find_parser
find_parser(header_name) ==
    LET r == SipRFCHeader_from_str(header_name)
    IN  IF r # None
        THEN [rfc_type |-> Some(r[1]), parser |-> get_parser(r[1])]
        ELSE [rfc_type |-> None, parser |-> "ExtensionParser"]

\* Header::take_name
take_name(source_input) ==
    LET n == PrefixLen(source_input, TokenChars)
        header_name == Take(source_input, n)
        c == take_sws_token(COLON, Drop(source_input, n))
    IN  IF n = 0 THEN Err(0, "TakeWhile1")
        ELSE IF ~c.ok THEN c
        ELSE IF is_utf8(header_name) THEN Ok(c.rest, header_name)
        ELSE sip_parse_error(1, "Bad header name")

\* A parameter grammar failure taken for "no parameters".
try_take_parameters_lenient(input) ==
    IF input = << >> \/ input[1] # SEMI THEN Ok(input, None)
    ELSE LET p == GenericParams_parse(input)
         IN  IF p.ok THEN Ok(p.rest, Some(p.val)) ELSE Ok(input, None)

\* Header::try_take_parameters
try_take_parameters(input) ==
    IF input = << >> \/ input[1] # SEMI THEN Ok(input, None)
    ELSE LET p == GenericParams_parse(input)
         IN  IF p.ok THEN Ok(p.rest, Some(p.val)) ELSE p

\* A terminator check that looks at the first byte only.
value_terminator_first_byte(inp0) ==
    inp0[1] = COMMA \/ inp0[1] = SEMI \/ inp0[1] = SP \/ inp0[1] = CR

\* Header::take_value, line 213: the bytes a value may be followed by.
value_terminator(inp0) ==
    inp0[1] = COMMA \/ inp0[1] = SEMI \/ inp0[1] = SP \/ is_crlf(inp0)

\* Header::take_value; val is <<value, params>>.
take_value(input, parser) ==
    IF is_crlf(input) THEN Ok(input, <<create_empty_value, None>>)
    ELSE
    LET g == HeaderValueParserFn(parser, input)
        inp0 == space0(g.rest).rest
    IN  IF ~g.ok THEN g
        ELSE IF inp0 = << >> THEN sip_parse_error(1, "Error parse header value")
        ELSE IF ~value_terminator(inp0)
        THEN sip_parse_error(2, "Error parse header value")
        ELSE IF inp0[1] = SEMI
        THEN LET p == try_take_parameters(inp0)
             IN  IF p.ok THEN Ok(p.rest, <<g.val, p.val>>) ELSE p
        ELSE Ok(inp0, <<g.val, None>>)

VARIABLES
    buf,            \* the caller's buffer
    pc,             \* where Header::parse is: take_name, loop, done
    header_name,    \* the locals of Header::parse
    rfc_type,
    value_parser,
    inp,
    headers,
    seps,           \* history: the views the comma scanner consumed
    tv,             \* history: the last call of take_value and its result
    ret             \* what Header::parse returned

vars == <<buf, pc, header_name, rfc_type, value_parser, inp, headers, seps,
          tv, ret>>

\* The view &from[..from.len() - to.len()] of b, for suffixes from, to of b.
SliceBetween(b, from, to) ==
    [off |-> Len(b) - Len(from), len |-> Len(from) - Len(to)]

\* The view taken from the wrong slice: &input[..inp.len() - input.len()].
RawValueParam_of_input(b, from, to) ==
    [off |-> Len(b) - Len(to), len |-> Len(from) - Len(to)]

\* Header::parse, line 243: &inp[..inp.len() - input.len()]
RawValueParam(b, from, to) == SliceBetween(b, from, to)

\* The bytes a view covers.
Bytes(b, s) == SubSeq(b, s.off + 1, s.off + s.len)

\* A push at the wrong end of the deque.
push_front(q, h) == <<h>> \o q

\* VecDeque::push_back
push_back(q, h) == Append(q, h)

NoRet == [tag |-> "None", rem |-> << >>, rfc_type |-> None,
          headers |-> << >>, err |-> None]

\* A failure that returns the records collected so far.
RetErr_partial(r) ==
    IF headers # << >>
    THEN [tag |-> "Ok", rem |-> inp, rfc_type |-> rfc_type,
          headers |-> headers, err |-> None]
    ELSE [tag |-> "Err", rem |-> << >>, rfc_type |-> None,
          headers |-> << >>, err |-> r.err]

\* Header::parse returning Err: the ? of lines 238, 242, 248 and line 245.
RetErr(r) == [tag |-> "Err", rem |-> << >>, rfc_type |-> None,
              headers |-> << >>, err |-> r.err]

\* Header::parse, line 255: Ok((inp, (rfc_type, headers)))
RetOk(rem, rfc, hs) == [tag |-> "Ok", rem |-> rem, rfc_type |-> rfc,
                        headers |-> hs, err |-> None]

\* An empty remaining input that returns the records collected so far.
header_input_is_empty_partial == RetOk(<< >>, rfc_type, headers)

\* Header::parse, lines 244-246: what an empty remaining input returns.
header_input_is_empty == RetErr(sip_parse_error(1, "header input is empty"))

\* A comma that is looked at and not consumed.
after_comma_peek(input) == Ok(input, None)

\* Header::parse, line 248: the separator comma and the whitespace around it.
after_comma(input) == take_sws_token(COMMA, input)

NoCall == [called |-> FALSE, input |-> << >>, parser |-> "", res |-> Err(0, "")]

Init ==
    /\ buf \in Buffers
    /\ pc = "take_name"
    /\ header_name = << >>
    /\ rfc_type = None
    /\ value_parser = ""
    /\ inp = << >>
    /\ headers = << >>
    /\ seps = << >>
    /\ tv = NoCall
    /\ ret = NoRet

\* Header::parse, lines 237-240: the name and the grammar.
ParseName ==
    /\ pc = "take_name"
    /\ LET r == take_name(buf)
           fp == find_parser(r.val)
       IN  IF ~r.ok
           THEN /\ ret' = RetErr(r)
                /\ pc' = "done"
                /\ UNCHANGED <<header_name, rfc_type, value_parser, inp>>
           ELSE /\ header_name' = r.val
                /\ rfc_type' = fp.rfc_type
                /\ value_parser' = fp.parser
                /\ inp' = r.rest
                /\ pc' = "loop"
                /\ ret' = ret
    /\ UNCHANGED <<buf, headers, seps, tv>>

\* Header::parse, lines 241-255: one iteration of the loop, and the return
\* that ends it.
ParseLoop ==
    /\ pc = "loop"
    /\ LET r == take_value(inp, value_parser)
           input == r.rest
           hs == push_back(headers,
                           Header_new(header_name, r.val[1], r.val[2],
                                      RawValueParam(buf, inp, input)))
           c == after_comma(input)
       IN  /\ tv' = [called |-> TRUE, input |-> inp, parser |-> value_parser,
                     res |-> r]
           /\ IF ~r.ok
              THEN /\ ret' = RetErr(r)
                   /\ pc' = "done"
                   /\ UNCHANGED <<inp, headers, seps>>
              ELSE IF input = << >>
              THEN /\ headers' = hs
                   /\ ret' = header_input_is_empty
                   /\ pc' = "done"
                   /\ UNCHANGED <<inp, seps>>
              ELSE IF input[1] = COMMA
              THEN IF ~c.ok
                   THEN /\ headers' = hs
                        /\ ret' = RetErr(c)
                        /\ pc' = "done"
                        /\ UNCHANGED <<inp, seps>>
                   ELSE /\ headers' = hs
                        /\ seps' = Append(seps, SliceBetween(buf, input, c.rest))
                        /\ inp' = c.rest
                        /\ pc' = "loop"
                        /\ ret' = ret
              ELSE /\ headers' = hs
                   /\ inp' = input
                   /\ ret' = RetOk(input, rfc_type, hs)
                   /\ pc' = "done"
                   /\ seps' = seps
    /\ UNCHANGED <<buf, header_name, rfc_type, value_parser>>

Next == ParseName \/ ParseLoop

Spec == Init /\ [][Next]_vars

\* ------------------------------------------------------------ properties

\* The offset in buf of the first byte after the name and its colon.
ValueStart == Len(buf) - Len(take_name(buf).rest)

\* The offset in buf just after a view.
EndOf(s) == s.off + s.len

RECURSIVE Interleave(_, _, _)
\* raw_value_param i, separator i, raw_value_param i+1, ...: their bytes.
Interleave(hs, ss, i) ==
    IF i > Len(hs) THEN << >>
    ELSE Bytes(buf, hs[i].raw_value_param)
            \o (IF i <= Len(ss) THEN Bytes(buf, ss[i]) ELSE << >>)
            \o Interleave(hs, ss, i + 1)

\* A separator view is one comma and the spaces that follow it.
IsSeparator(s) ==
    /\ s.len >= 1
    /\ buf[s.off + 1] = COMMA
    /\ \A k \in 2..s.len : buf[s.off + k] = SP

\* C1: when Header::parse succeeds it returns one Header per comma-separated
\* occurrence, that is one more than the separator commas the loop consumed,
\* in left-to-right order of appearance (record i lies before separator i,
\* which lies before record i+1), and every record has the name take_name
\* recognised.
C1_OneRecordPerOccurrence ==
    ret.tag = "Ok" =>
        /\ Len(ret.headers) = Len(seps) + 1
        /\ \A i \in 1..Len(seps) :
              /\ IsSeparator(seps[i])
              /\ EndOf(ret.headers[i].raw_value_param) <= seps[i].off
              /\ EndOf(seps[i]) <= ret.headers[i + 1].raw_value_param.off
        /\ \A i \in 1..Len(ret.headers) :
              ret.headers[i].name = Take(buf, PrefixLen(buf, TokenChars))

\* C1 witness: a successful parse of two occurrences, the second not empty.
C1_Witness ==
    /\ ret.tag = "Ok"
    /\ Len(ret.headers) = 2
    /\ ret.headers[2].raw_value_param.len > 0

\* C2: byte accounting.  After every loop iteration that continues, and at
\* the successful return, the raw_value_param views and the separators
\* between them, concatenated in order, are exactly the bytes of buf from
\* just after the name and colon up to the remaining input; the views are
\* adjacent (no gap, no overlap).
C2_ByteAccounting ==
    (pc = "loop" \/ ret.tag = "Ok") =>
        /\ Len(headers) = Len(seps) + (IF pc = "loop" THEN 0 ELSE 1)
        /\ Interleave(headers, seps, 1)
              = SubSeq(buf, ValueStart + 1, Len(buf) - Len(inp))
        /\ \A i \in 1..Len(headers) :
              headers[i].raw_value_param.off
                 = IF i = 1 THEN ValueStart ELSE EndOf(seps[i - 1])
        /\ \A i \in 1..Len(seps) :
              seps[i].off = EndOf(headers[i].raw_value_param)
        /\ Len(buf) - Len(inp)
              = IF headers = << >> THEN ValueStart
                ELSE IF pc = "loop" THEN EndOf(seps[Len(seps)])
                ELSE EndOf(headers[Len(headers)].raw_value_param)
        /\ ret.tag = "Ok" => ret.rem = inp /\ ret.headers = headers

\* C2 witness: a successful parse that consumed a separator with whitespace
\* after a value with something to account for.
C2_Witness ==
    /\ ret.tag = "Ok"
    /\ Len(seps) >= 1
    /\ seps[1].len >= 2
    /\ headers[1].raw_value_param.len >= 1

\* The value grammar's result in the last call of take_value.
LastGrammar == HeaderValueParserFn(tv.parser, tv.input)

\* What follows the value and the spaces after it in the last call.
AfterValue == space0(LastGrammar.rest).rest

TerminatorError(code) ==
    Some([code |-> code, msg |-> "Error parse header value"])

EmptyInputError == Some([code |-> 1, msg |-> "header input is empty"])

\* C3: a failure in any occurrence, the first or a later one, makes
\* Header::parse return that error and nothing else: the parse is over, no
\* record is returned, and a success means that the name and every call of
\* take_value succeeded.
C3_FailureAbortsGroup ==
    /\ (tv.called /\ ~tv.res.ok) =>
          /\ pc = "done"
          /\ ret.tag = "Err"
          /\ ret.err = tv.res.err
    /\ (pc # "take_name" /\ ~take_name(buf).ok) =>
          /\ pc = "done"
          /\ ret.tag = "Err"
          /\ ret.err = take_name(buf).err
          /\ ~tv.called
    /\ (tv.called /\ tv.res.ok /\ tv.res.rest = << >>) =>
          pc = "done" /\ ret.tag = "Err"
    /\ ret.tag = "Err" =>
          ret.headers = << >> /\ ret.rem = << >> /\ ret.rfc_type = None
    /\ ret.tag = "Ok" => take_name(buf).ok /\ tv.called /\ tv.res.ok
    /\ pc = "done" <=> ret.tag \in {"Ok", "Err"}

\* C3 witness: the second occurrence fails after the first was collected.
C3_Witness ==
    /\ pc = "done"
    /\ tv.called
    /\ ~tv.res.ok
    /\ Len(headers) = 1
    /\ ret.tag = "Err"

\* C4: in take_value, once the grammar matched and the spaces are skipped,
\* end of input is the terminator error 1 and a byte that is no comma,
\* semicolon or space and starts no line terminator is the terminator
\* error 2, with no HeaderValue; a success has one of these bytes next.
C4_ValueTerminator ==
    (tv.called /\ ~is_crlf(tv.input) /\ LastGrammar.ok) =>
        /\ AfterValue = << >> =>
              /\ ~tv.res.ok
              /\ tv.res.err = TerminatorError(1)
              /\ tv.res.val = None
        /\ ( /\ AfterValue # << >>
             /\ AfterValue[1] \notin {COMMA, SEMI, SP}
             /\ ~is_crlf(AfterValue) ) =>
              /\ ~tv.res.ok
              /\ tv.res.err = TerminatorError(2)
              /\ tv.res.val = None
        /\ tv.res.ok =>
              /\ AfterValue # << >>
              /\ AfterValue[1] \in {COMMA, SEMI, SP} \/ is_crlf(AfterValue)

\* C4 witness: a value followed by a lone CR, which starts no terminator.
C4_Witness ==
    /\ tv.called
    /\ LastGrammar.ok
    /\ AfterValue # << >>
    /\ AfterValue[1] = CR
    /\ tv.res.err = TerminatorError(2)

\* C5: on an input that starts with a line terminator take_value returns
\* the EmptyValue with empty text, no tags, no URI and no parameters, and
\* the input it was given; the Header built from it has an empty
\* raw_value_param and ends a successful parse, also after a comma.
C5_EmptyValueShortcut ==
    (tv.called /\ is_crlf(tv.input)) =>
        /\ tv.res.ok
        /\ tv.res.rest = tv.input
        /\ tv.res.val[1] = [vstr |-> << >>, vtype |-> "EmptyValue",
                            vtags |-> None, sip_uri |-> None]
        /\ tv.res.val[2] = None
        /\ headers # << >>
        /\ headers[Len(headers)].value = tv.res.val[1]
        /\ headers[Len(headers)].parameters = None
        /\ headers[Len(headers)].raw_value_param.len = 0
        /\ ret.tag = "Ok"
        /\ ret.rem = tv.input

\* C5 witness: the empty value is the occurrence after a comma, under the
\* token grammar, which matches no empty text.
C5_Witness ==
    /\ tv.called
    /\ is_crlf(tv.input)
    /\ Len(headers) = 2
    /\ ~LastGrammar.ok

\* C6: whenever Header::parse succeeds the remaining input starts with a
\* line terminator.
C6_RemainingAtTerminator == ret.tag = "Ok" => is_crlf(ret.rem)

\* C7: find_parser gives a registered name its classification and its own
\* grammar and any other name no classification and the extension grammar;
\* the lookup never ends the parse, so the first take_value always runs; a
\* success returns None exactly for an unregistered name.
C7_FindParser ==
    (pc # "take_name" /\ take_name(buf).ok) =>
        LET n == take_name(buf).val
        IN  /\ InRegistry(n) =>
                  /\ rfc_type = Some(RegistryEntry(n).rfc)
                  /\ value_parser = RegistryEntry(n).parser
            /\ ~InRegistry(n) =>
                  /\ rfc_type = None
                  /\ value_parser = "ExtensionParser"
            /\ ~tv.called => pc = "loop" /\ ret.tag = "None"
            /\ tv.called => tv.parser = value_parser
            /\ ret.tag = "Ok" =>
                  /\ ret.rfc_type = rfc_type
                  /\ ret.rfc_type = None <=> ~InRegistry(n)

\* C7 witness: a parse of an unregistered name that succeeds.
C7_Witness ==
    /\ ret.tag = "Ok"
    /\ ret.rfc_type = None
    /\ ret.headers[1].value.vtype = "ExtensionHeader"

\* C8: when nothing remains after an occurrence's value and parameters the
\* parse fails with "header input is empty" and returns no record;
\* Header::parse never succeeds with an empty remaining input.
C8_EmptyRemainingIsError ==
    /\ (tv.called /\ tv.res.ok /\ tv.res.rest = << >>) =>
          /\ pc = "done"
          /\ ret.tag = "Err"
          /\ ret.err = EmptyInputError
          /\ ret.headers = << >>
    /\ ret.tag = "Ok" => ret.rem # << >>

\* C8 witness: the input ends after the parameters of the second occurrence
\* or of the first.
C8_Witness ==
    /\ tv.called
    /\ tv.res.ok
    /\ tv.res.rest = << >>
    /\ ret.err = EmptyInputError

\* C9: an iteration of the loop either continues, and then only after a
\* value followed by a comma that it consumed, which leaves the remaining
\* input strictly shorter, or ends Header::parse with a success or an
\* error: the length of the remaining input bounds the iterations.
C9_LoopTerminates ==
    [][pc = "loop" =>
          \/ /\ pc' = "loop"
             /\ ret'.tag = "None"
             /\ tv'.res.ok
             /\ tv'.input = inp
             /\ tv'.res.rest # << >>
             /\ tv'.res.rest[1] = COMMA
             /\ Len(tv'.res.rest) <= Len(inp)
             /\ Len(inp') < Len(tv'.res.rest)
          \/ /\ pc' = "done"
             /\ ret'.tag \in {"Ok", "Err"}]_vars

\* C9 witness: the loop is entered a third time.
C9_Witness ==
    /\ pc = "loop"
    /\ Len(headers) = 2

\* C10: a successful take_value has parameters exactly when a semicolon
\* follows the value and its spaces; then they are the generic-parameter
\* grammar's result from that semicolon, and its failure is take_value's;
\* after a comma or a line terminator there are none and the remaining
\* input starts at that byte.
C10_ParametersIffSemicolon ==
    (tv.called /\ ~is_crlf(tv.input) /\ LastGrammar.ok /\ AfterValue # << >>)
    =>  /\ AfterValue[1] = SEMI =>
              LET p == GenericParams_parse(AfterValue)
              IN  /\ p.ok => tv.res = Ok(p.rest, <<LastGrammar.val, Some(p.val)>>)
                  /\ ~p.ok => ~tv.res.ok /\ tv.res.err = p.err
        /\ (AfterValue[1] # SEMI /\ tv.res.ok) =>
              /\ tv.res.val = <<LastGrammar.val, None>>
              /\ tv.res.rest = AfterValue
              /\ AfterValue[1] = COMMA \/ is_crlf(AfterValue)
        /\ tv.res.ok => (tv.res.val[2] # None <=> AfterValue[1] = SEMI)

\* C10 witness: a value with two parameters.
C10_Witness ==
    /\ tv.called
    /\ tv.res.ok
    /\ tv.res.val[2] # None
    /\ Len(tv.res.val[2][1]) = 2

====
